---- MODULE Spec2Model ----
(***************************************************************************)
(* A model of the blerrors package: the error record and its builders,     *)
(* the mapping from error codes to HTTP status codes, the JSON envelope    *)
(* writers, and the two middlewares (panic recovery, request id).          *)
(*                                                                         *)
(* A Go string is a TLA+ string where the code only compares it with       *)
(* constants (codes, messages, keys), and the sequence of its pieces       *)
(* where the code builds it, takes it apart or tests it for emptiness:     *)
(* the empty string is then the empty sequence.                            *)
(***************************************************************************)
EXTENDS Integers, Sequences, FiniteSets, TLC

VARIABLES
    pureOp,      \* which of the two pure functions was called last
    statusIn,    \* the code handed to getHTTPStatusCode, when it was
    statusOut,   \* what getHTTPStatusCode returned for it
    ctxIn,       \* the context handed to GetRequestID, when it was
    ridOut,      \* what GetRequestID returned for it
    heap,        \* the AppError structs allocated so far; a pointer is an index
    born,        \* each struct as NewAppError returned it
    under,       \* the call stack each NewAppError was called under
    log,         \* the builder calls made on each struct, in order
    ret,         \* the pointer the last call returned (0: no call yet)
    recv,        \* the pointer the last builder was called on (0: none)
    w,           \* the response sink (http.ResponseWriter) of the request
    conn,        \* how the sink's Write behaves: ok, broken (error), panics
    panicnil,    \* the toolchain lets recover() return nil for panic(nil)
                 \* (before go1.21, or GODEBUG=panicnil=1)
    served,      \* how many operations the sink has received
    lastOp,      \* the last operation applied to the sink
    wasFresh,    \* whether the sink was fresh when that operation began
    argErr,      \* the record handed to WriteErrorResponse
    argData,     \* the payload handed to WriteSuccessResponse
    argHandler,  \* the inner handler wrapped by ErrorRecoveryMiddleware
    encodeErr,   \* the error Encode returned inside the last writer call
    dispatched,  \* how often the middleware called WriteErrorResponse
    escaped,     \* the panic that left the last operation (none: returned)
    clock,       \* the time source RequestIDMiddleware reads
    ticks,       \* how often the clock has advanced
    req          \* the requests passing through RequestIDMiddleware

pureVars == <<statusIn, statusOut, ctxIn, ridOut, pureOp>>
recVars == <<heap, born, under, log, ret, recv>>
httpVars == <<w, conn, panicnil, served, lastOp, wasFresh, argErr, argData, argHandler,
              encodeErr, dispatched, escaped>>

ridVars == <<clock, ticks, req>>

vars == <<pureVars, recVars, httpVars, ridVars>>

(***************************************************************************)
(* Error codes (the ErrorCode constants) and HTTP status codes.            *)
(***************************************************************************)
ErrCodeNotFound == "NOT_FOUND"
ErrCodeValidation == "VALIDATION_ERROR"
ErrCodeInternal == "INTERNAL_ERROR"
ErrCodeUnauthorized == "UNAUTHORIZED"
ErrCodeForbidden == "FORBIDDEN"
ErrCodeBadRequest == "BAD_REQUEST"
ErrCodeConflict == "CONFLICT"
ErrCodeTooManyRequests == "TOO_MANY_REQUESTS"
ErrCodeServiceUnavailable == "SERVICE_UNAVAILABLE"

PredefinedCodes ==
    { ErrCodeNotFound, ErrCodeValidation, ErrCodeInternal, ErrCodeUnauthorized,
      ErrCodeForbidden, ErrCodeBadRequest, ErrCodeConflict,
      ErrCodeTooManyRequests, ErrCodeServiceUnavailable }

\* ErrorCode is a string type: a host may hand in any string.
CustomCodes == { "UNKNOWN", "CUSTOM_ERROR", "not_found", "" }

ErrorCodes == PredefinedCodes \cup CustomCodes

StatusOK == 200
StatusBadRequest == 400
StatusUnauthorized == 401
StatusForbidden == 403
StatusNotFound == 404
StatusConflict == 409
StatusTooManyRequests == 429
StatusInternalServerError == 500
StatusServiceUnavailable == 503

\* A getHTTPStatusCode whose default branch was forgotten for custom codes.
getHTTPStatusCodeNoDefault(code) ==
    CASE code = ErrCodeNotFound -> StatusNotFound
      [] code \in {ErrCodeValidation, ErrCodeBadRequest} -> StatusBadRequest
      [] code = ErrCodeUnauthorized -> StatusUnauthorized
      [] code = ErrCodeForbidden -> StatusForbidden
      [] code = ErrCodeConflict -> StatusConflict
      [] code = ErrCodeTooManyRequests -> StatusTooManyRequests
      [] code = ErrCodeServiceUnavailable -> StatusServiceUnavailable
      [] code = ErrCodeInternal -> StatusInternalServerError
      [] OTHER -> StatusOK

\* The switch of getHTTPStatusCode, case by case; ErrCodeInternal falls
\* through to the default.
getHTTPStatusCode(code) ==
    CASE code = ErrCodeNotFound -> StatusNotFound
      [] code \in {ErrCodeValidation, ErrCodeBadRequest} -> StatusBadRequest
      [] code = ErrCodeUnauthorized -> StatusUnauthorized
      [] code = ErrCodeForbidden -> StatusForbidden
      [] code = ErrCodeConflict -> StatusConflict
      [] code = ErrCodeTooManyRequests -> StatusTooManyRequests
      [] code = ErrCodeServiceUnavailable -> StatusServiceUnavailable
      [] OTHER -> StatusInternalServerError

(***************************************************************************)
(* context.Context: a chain of (key, value) pairs, the innermost first.    *)
(* A key or a value is an interface value: a dynamic type and its data.    *)
(***************************************************************************)
\* A string value, built from its pieces.
Text(pieces) == [t |-> "string", v |-> pieces]
\* An int value, by its decimal rendering.
Number(digits) == [t |-> "int", v |-> <<digits>>]
\* The nil interface value: what ctx.Value returns when no pair of the chain
\* has the key, and what Details holds until WithDetails sets it.
NilValue == [t |-> "nil", v |-> << >>]

\* The untyped string constant "request_id" the package uses as its key.
RequestIDKey == [t |-> "string", name |-> "request_id"]

Background == << >>

WithValue(parent, key, val) == <<[key |-> key, val |-> val]>> \o parent

RECURSIVE Value(_, _)
Value(ctx, key) ==
    IF ctx = << >> THEN NilValue
    ELSE IF Head(ctx).key = key THEN Head(ctx).val
    ELSE Value(Tail(ctx), key)

\* A GetRequestID that drops the ok of the type assertion and renders
\* whatever the context holds.
GetRequestIDUnchecked(ctx) == Value(ctx, RequestIDKey).v

\* requestID, ok := ctx.Value("request_id").(string)
GetRequestID(ctx) ==
    LET x == Value(ctx, RequestIDKey)
    IN  IF x.t = "string" THEN x.v ELSE << >>

(***************************************************************************)
(* The inputs the two pure functions are applied to.                       *)
(***************************************************************************)
ContextKeys ==
    { RequestIDKey,
      [t |-> "ctxKey", name |-> "request_id"],
      [t |-> "string", name |-> "user_id"] }

ContextValues ==
    { Text(<<"req-123">>), Text(<< >>), Number("123"), [t |-> "bool", v |-> <<"true">>] }

ContextPairs == [key : ContextKeys, val : ContextValues]

\* The depth of the context chains handed to GetRequestID.
MaxCtxDepth == 2

RECURSIVE Chains(_)
Chains(n) ==
    IF n = 0 THEN { Background }
    ELSE LET shorter == Chains(n - 1)
         IN  shorter \cup { <<p>> \o c : p \in ContextPairs, c \in shorter }

Contexts == Chains(MaxCtxDepth)

(***************************************************************************)
(* The call stack NewAppError is called under: the frames from its caller  *)
(* outwards. A function name is the sequence of its pieces, the separators *)
(* "/" and "." being pieces of their own.                                  *)
(***************************************************************************)
Frame(file, line, function) == [File |-> file, Line |-> line, Function |-> function]

\* The zero runtime.Frame that Frames.Next returns when there is no frame.
ZeroFrame == Frame("", 0, << >>)

\* fmt.Sprintf("%s:%d %s", frame.File, frame.Line, frame.Function)
FrameString(frame) == <<frame.File, ":", frame.Line, " ", frame.Function>>

systemPrefixes ==
    << <<"runtime", ".">>,
       <<"reflect", ".">>,
       <<"blerrors", ".">>,
       <<"net", "/", "http", ".">>,
       <<"github", ".", "com", "/", "gorilla", "/", "mux", ".">> >>

\* len(function) > len(prefix) && function[:len(prefix)] == prefix; every
\* prefix ends with a separator, so the pieces decide what the bytes decide.
HasPrefix(function, prefix) ==
    /\ Len(function) > Len(prefix)
    /\ SubSeq(function, 1, Len(prefix)) = prefix

isSystemFrame(function) ==
    \E i \in 1..Len(systemPrefixes) : HasPrefix(function, systemPrefixes[i])

\* The size of the pc buffer getStackTrace hands to runtime.Callers.
StackTraceBuffer == 15
\* The number of entries at which getStackTrace stops collecting.
StackTraceDepth == 10
\* The size of the pc buffer getCurrentModule hands to runtime.Callers.
CurrentModuleBuffer == 5

\* runtime.Callers(3, pc): the frames from the caller of NewAppError on, as
\* many as the buffer holds.
Callers(stack, size) == SubSeq(stack, 1, IF Len(stack) < size THEN Len(stack) ELSE size)

\* The loop of getStackTrace: frames.Next() yields the next frame (the zero
\* frame when none is left) and whether more follow.
RECURSIVE StackTraceLoop(_, _)
StackTraceLoop(frames, trace) ==
    LET frame == IF frames = << >> THEN ZeroFrame ELSE Head(frames)
        more == Len(frames) > 1
        trace2 == IF isSystemFrame(frame.Function) THEN trace
                  ELSE Append(trace, FrameString(frame))
    IN  IF ~more \/ Len(trace2) >= StackTraceDepth THEN trace2
        ELSE StackTraceLoop(Tail(frames), trace2)

getStackTrace(stack) == StackTraceLoop(Callers(stack, StackTraceBuffer), << >>)

IsSeparator(piece) == piece \in {"/", "."}

\* The parts extractModuleName splits the function name into.
RECURSIVE Parts(_)
Parts(function) ==
    IF function = << >> THEN << >>
    ELSE IF IsSeparator(Head(function)) THEN Parts(Tail(function))
    ELSE <<Head(function)>> \o Parts(Tail(function))

RECURSIVE LastMeaningful(_, _)
LastMeaningful(parts, i) ==
    IF i < 1 THEN "unknown"
    ELSE IF parts[i] # "" /\ parts[i] # "internal" /\ parts[i] # "pkg" THEN parts[i]
    ELSE LastMeaningful(parts, i - 1)

extractModuleName(function) ==
    LET parts == Parts(function) IN LastMeaningful(parts, Len(parts))

getCurrentModule(stack) ==
    LET frames == Callers(stack, CurrentModuleBuffer)
    IN  IF Len(frames) > 0 /\ Len(frames) > 1
        THEN extractModuleName(Head(frames).Function)
        ELSE "unknown"

(***************************************************************************)
(* The error record (AppError) and its builders.                           *)
(***************************************************************************)
\* A value encoding/json cannot marshal (a channel, a func).
Chan == [t |-> "chan", v |-> << >>]

TimeLayout == "2006-01-02 15:04:05"

NewAppError(code, message, priority, errorCode, errorType, userID, now, stack) ==
    [ Code |-> code,
      Message |-> message,
      Timestamp |-> now,
      HumanReadableTime |-> <<TimeLayout, now>>,
      Trace |-> getStackTrace(stack),
      Module |-> getCurrentModule(stack),
      Priority |-> priority,
      ErrorCode |-> errorCode,
      ErrorType |-> errorType,
      UserID |-> userID,
      Details |-> NilValue,
      RequestID |-> "" ]

\* A WithModule that captures the stack again, as the constructor does.
WithModuleRetracing(h, e, module) ==
    [ heap |-> [h EXCEPT ![e].Module = module, ![e].Trace = born[e].Trace],
      ret |-> e ]

\* e.Module = module; return e
WithModule(h, e, module) ==
    [ heap |-> [h EXCEPT ![e].Module = module], ret |-> e ]

\* A WithDetails that works on a copy of the struct and returns the copy.
WithDetailsCopying(h, e, details) ==
    [ heap |-> Append(h, [h[e] EXCEPT !.Details = details]), ret |-> Len(h) + 1 ]

\* e.Details = details; return e
WithDetails(h, e, details) ==
    [ heap |-> [h EXCEPT ![e].Details = details], ret |-> e ]

\* e.RequestID = requestID; return e
WithRequestID(h, e, requestID) ==
    [ heap |-> [h EXCEPT ![e].RequestID = requestID], ret |-> e ]

\* e.Trace = nil; return e
WithoutTrace(h, e) ==
    [ heap |-> [h EXCEPT ![e].Trace = << >>], ret |-> e ]

(***************************************************************************)
(* The inputs of the record operations.                                    *)
(***************************************************************************)
HandlerFrame == Frame("handler.go", 42, <<"main", ".", "GetUser">>)
ServeFrame == Frame("server.go", 2220, <<"net", "/", "http", ".", "HandlerFunc", ".", "ServeHTTP">>)
GoexitFrame == Frame("asm_amd64.s", 1700, <<"runtime", ".", "goexit">>)

HandlerStack == <<HandlerFrame, ServeFrame, GoexitFrame>>
ServiceStack ==
    << Frame("user.go", 17, <<"github", ".", "com", "/", "org", "/", "project", "/",
                              "internal", "/", "handler", ".", "GetUser">>),
       HandlerFrame, ServeFrame, GoexitFrame >>

Stacks == { HandlerStack, ServiceStack }
RecordStacks == { ServiceStack }
Times == { 1703123456, 1703123457 }
RecordCodes == { ErrCodeNotFound, ErrCodeInternal }
Modules == { "auth-service", "" }
DetailsValues == { Text(<<"Insufficient permissions">>), NilValue, Chan }
RequestIDs == { "req-abc" }

\* How many structs are allocated, and how many builder calls are made.
MaxRecs == 1
MaxCalls == 3

RECURSIVE SumLen(_, _)
SumLen(l, i) == IF i = 0 THEN 0 ELSE Len(l[i]) + SumLen(l, i - 1)

CallsMade == SumLen(log, Len(log))

RecInit ==
    /\ heap = << >>
    /\ born = << >>
    /\ under = << >>
    /\ log = << >>
    /\ ret = 0
    /\ recv = 0

CallNewAppError ==
    /\ Len(heap) < MaxRecs
    /\ \E code \in RecordCodes, now \in Times, stack \in RecordStacks :
         LET e == NewAppError(code, "Access denied", "", "", "", "", now, stack)
         IN  /\ heap' = Append(heap, e)
             /\ born' = Append(born, e)
             /\ under' = Append(under, stack)
             /\ log' = Append(log, << >>)
             /\ ret' = Len(heap) + 1
             /\ recv' = 0

Builder(e, op, arg, result) ==
    /\ CallsMade < MaxCalls
    /\ heap' = result.heap
    /\ ret' = result.ret
    /\ recv' = e
    /\ log' = [log EXCEPT ![e] = Append(@, [op |-> op, arg |-> arg])]
    /\ UNCHANGED <<born, under>>

CallWithModule ==
    \E e \in DOMAIN log, module \in Modules :
        Builder(e, "WithModule", module, WithModule(heap, e, module))

CallWithDetails ==
    \E e \in DOMAIN log, details \in DetailsValues :
        Builder(e, "WithDetails", details, WithDetails(heap, e, details))

CallWithRequestID ==
    \E e \in DOMAIN log, requestID \in RequestIDs :
        Builder(e, "WithRequestID", requestID, WithRequestID(heap, e, requestID))

CallWithoutTrace ==
    \E e \in DOMAIN log :
        Builder(e, "WithoutTrace", "", WithoutTrace(heap, e))

(***************************************************************************)
(* NewAppError under call stacks of every shape: the caller's frame, the   *)
(* frames that called it, frames of the runtime and the transport          *)
(* framework, frames further out, and runtime.goexit at the bottom of the  *)
(* goroutine. The empty stack is runtime.Callers returning 0.              *)
(***************************************************************************)
\* How many application frames lie between the caller and the framework's
\* frames, how many framework frames there are, and how many application
\* frames lie beyond them.
MaxNear == 10
MaxSystem == 6
MaxFar == 1

\* The functions NewAppError is called from.
CallerFunctions ==
    { <<"github", ".", "com", "/", "org", "/", "project", "/", "internal", "/",
        "handler", ".", "GetUser">>,
      <<"github", ".", "com", "/", "org", "/", "project", "/", "pkg", ".", "Load">>,
      <<"main", ".", "GetUser">>,
      <<"main", ".", "(*Server)", ".", "Handle">>,
      <<"blerrors", ".", "ErrorRecoveryMiddleware", ".", "func1", ".", "1">>,
      << >> }

AppFunction ==
    <<"github", ".", "com", "/", "org", "/", "project", "/", "service", ".", "Run">>

\* The frame at a position of the stack; the line tells the positions apart.
AppFrame(pos) == Frame("service.go", pos, AppFunction)
SystemFrame(pos) ==
    Frame("system.go", pos,
          systemPrefixes[(pos % Len(systemPrefixes)) + 1] \o <<"call">>)

Layered(function, near, system, far) ==
    <<Frame("caller.go", 1, function)>>
    \o [i \in 1..near |-> AppFrame(1 + i)]
    \o [i \in 1..system |-> SystemFrame(1 + near + i)]
    \o [i \in 1..far |-> AppFrame(1 + near + system + i)]
    \o <<GoexitFrame>>

CallStacks ==
    { << >> } \cup
    { Layered(function, near, system, far) :
        function \in CallerFunctions, near \in 0..MaxNear,
        system \in 0..MaxSystem, far \in 0..MaxFar }

\* One call of NewAppError in a program that holds no record yet.
CallNewAppErrorUnder ==
    /\ heap = << >>
    /\ \E stack \in CallStacks :
         LET e == NewAppError(ErrCodeInternal, "Database connection failed",
                              "", "", "", "", 1703123456, stack)
         IN  /\ heap' = <<e>>
             /\ born' = <<e>>
             /\ under' = <<stack>>
             /\ log' = << << >> >>
             /\ ret' = 1
             /\ recv' = 0

\* The record is dropped; the next call starts from no record.
DropRecord ==
    /\ heap # << >>
    /\ heap' = << >>
    /\ born' = << >>
    /\ under' = << >>
    /\ log' = << >>
    /\ ret' = 0
    /\ recv' = 0

(***************************************************************************)
(* Builders the callers in this package chain but whose code is not among  *)
(* the sources: each sets the field NewAppError takes as a parameter.      *)
(***************************************************************************)
IsCritical(h, e) == [ heap |-> [h EXCEPT ![e].Priority = "critical"], ret |-> e ]
WithErrorCode(h, e, errorCode) == [ heap |-> [h EXCEPT ![e].ErrorCode = errorCode], ret |-> e ]
IsSystemError(h, e) == [ heap |-> [h EXCEPT ![e].ErrorType = "system"], ret |-> e ]
WithUserID(h, e, userID) == [ heap |-> [h EXCEPT ![e].UserID = userID], ret |-> e ]

(***************************************************************************)
(* The response sink: an http.ResponseWriter. Header() is the live header  *)
(* map; the first WriteHeader fixes the status and the headers that are    *)
(* sent, later ones are ignored; a Write before any WriteHeader sends 200. *)
(***************************************************************************)
HeaderKeys == { "Content-Type", "X-Content-Type-Options" }

FreshSink ==
    [ header |-> [k \in HeaderKeys |-> ""],
      wroteHeader |-> FALSE,
      status |-> 0,
      sent |-> [k \in HeaderKeys |-> ""],
      body |-> << >>,
      calls |-> << >> ]

HeaderSet(sink, key, val) ==
    [sink EXCEPT !.header[key] = val, !.calls = Append(@, "Header.Set")]

Commit(sink, code) ==
    IF sink.wroteHeader THEN sink
    ELSE [sink EXCEPT !.wroteHeader = TRUE, !.status = code, !.sent = sink.header]

WriteHeader(sink, code) ==
    [Commit(sink, code) EXCEPT !.calls = Append(@, "WriteHeader")]

\* w.Write(chunk): the bytes reach the body unless the connection refuses
\* them (an error) or the sink panics.
Write(sink, chunk, c) ==
    LET called == [sink EXCEPT !.calls = Append(@, "Write")]
    IN  CASE c = "ok" ->
               [ w |-> [Commit(called, StatusOK) EXCEPT !.body = Append(@, chunk)],
                 err |-> FALSE, panicked |-> FALSE ]
          [] c = "broken" ->
               [ w |-> Commit(called, StatusOK), err |-> TRUE, panicked |-> FALSE ]
          [] OTHER ->
               [ w |-> called, err |-> FALSE, panicked |-> TRUE ]

\* What the client is sent.
ClientStatus(sink) == IF sink.wroteHeader THEN sink.status ELSE StatusOK
ClientHeader(sink) == IF sink.wroteHeader THEN sink.sent ELSE sink.header

(***************************************************************************)
(* encoding/json, as far as the struct tags of AppError, ErrorResponse and *)
(* SuccessResponse decide the document: a JSON object is a function from   *)
(* the keys it has.                                                        *)
(***************************************************************************)
Marshalable(val) == val.t # "chan"

JsonValue(val) ==
    [ j |-> CASE val.t = "string" -> "string"
              [] val.t = "int" -> "number"
              [] OTHER -> "null",
      v |-> val.v ]

\* AppError's tags: module, trace, details and request_id are omitempty.
AppErrorKeys(e) ==
    {"code", "message", "timestamp"}
        \cup (IF e.Module # "" THEN {"module"} ELSE {})
        \cup (IF Len(e.Trace) > 0 THEN {"trace"} ELSE {})
        \cup (IF e.Details.t # "nil" THEN {"details"} ELSE {})
        \cup (IF e.RequestID # "" THEN {"request_id"} ELSE {})

JsonAppError(e) ==
    [ k \in AppErrorKeys(e) |->
        CASE k = "code" -> e.Code
          [] k = "message" -> e.Message
          [] k = "timestamp" -> e.Timestamp
          [] k = "module" -> e.Module
          [] k = "trace" -> e.Trace
          [] k = "details" -> JsonValue(e.Details)
          [] k = "request_id" -> e.RequestID ]

\* ErrorResponse{Success: false, Error: err}
ErrorResponse(e) ==
    [ k \in {"success", "error"} |-> IF k = "success" THEN FALSE ELSE JsonAppError(e) ]

\* SuccessResponse{Success: true, Data: data}; data is omitempty.
SuccessResponse(data) ==
    [ k \in {"success"} \cup (IF data.t # "nil" THEN {"data"} ELSE {}) |->
        IF k = "success" THEN TRUE ELSE JsonValue(data) ]

JsonChunk(doc) == [kind |-> "json", val |-> doc]
TextChunk(pieces) == [kind |-> "text", val |-> pieces]

\* json.NewEncoder(w).Encode(v): marshal, then one Write of the document.
Encode(sink, doc, marshalable, c) ==
    IF ~marshalable THEN [w |-> sink, err |-> "marshal", panicked |-> FALSE]
    ELSE LET wr == Write(sink, JsonChunk(doc), c)
         IN  [ w |-> wr.w,
               err |-> IF wr.err THEN "write" ELSE "none",
               panicked |-> wr.panicked ]

\* http.Error(w, msg, code)
HttpError(sink, msg, code, c) ==
    LET w1 == HeaderSet(sink, "Content-Type", "text/plain; charset=utf-8")
        w2 == HeaderSet(w1, "X-Content-Type-Options", "nosniff")
        w3 == WriteHeader(w2, code)
    IN  Write(w3, TextChunk(<<msg, "\n">>), c)

\* A WriteErrorResponse that writes the status line before the header.
WriteErrorResponseStatusFirst(sink, e, c) ==
    LET w1 == WriteHeader(sink, getHTTPStatusCode(e.Code))
        w2 == HeaderSet(w1, "Content-Type", "application/json")
        enc == Encode(w2, ErrorResponse(e), Marshalable(e.Details), c)
    IN  [ w |-> enc.w, encodeErr |-> enc.err, panicked |-> enc.panicked ]

WriteErrorResponse(sink, e, c) ==
    LET w1 == HeaderSet(sink, "Content-Type", "application/json")
        w2 == WriteHeader(w1, getHTTPStatusCode(e.Code))
        enc == Encode(w2, ErrorResponse(e), Marshalable(e.Details), c)
    IN  IF enc.panicked THEN [w |-> enc.w, encodeErr |-> "none", panicked |-> TRUE]
        ELSE IF enc.err # "none"
        THEN LET fb == HttpError(enc.w, "Internal server error",
                                 StatusInternalServerError, c)
             IN  [w |-> fb.w, encodeErr |-> enc.err, panicked |-> fb.panicked]
        ELSE [w |-> enc.w, encodeErr |-> "none", panicked |-> FALSE]

\* A WriteSuccessResponse that wraps the payload in the failure envelope's
\* key.
WriteSuccessResponseUnderError(sink, data, c) ==
    LET w1 == HeaderSet(sink, "Content-Type", "application/json")
        w2 == WriteHeader(w1, StatusOK)
        doc == [k \in {"success", "error"} |-> IF k = "success" THEN TRUE ELSE JsonValue(data)]
        enc == Encode(w2, doc, Marshalable(data), c)
    IN  [w |-> enc.w, encodeErr |-> enc.err, panicked |-> enc.panicked]

WriteSuccessResponse(sink, data, c) ==
    LET w1 == HeaderSet(sink, "Content-Type", "application/json")
        w2 == WriteHeader(w1, StatusOK)
        enc == Encode(w2, SuccessResponse(data), Marshalable(data), c)
    IN  [w |-> enc.w, encodeErr |-> enc.err, panicked |-> enc.panicked]

(***************************************************************************)
(* ErrorRecoveryMiddleware. An inner handler is what it does to the sink   *)
(* and how it ends: by returning, or by a panic with some value.           *)
(***************************************************************************)
NoPanic == [t |-> "none", v |-> << >>]
\* What a sink that panics in Write panics with.
SinkPanic == [t |-> "error", v |-> <<"write on closed sink">>]
\* What recover() returns for panic(nil) from go1.21 on.
PanicNilError ==
    [t |-> "error", v |-> <<"panic called with nil argument (obsolete)">>]

RECURSIVE RunHandler(_, _, _, _)
RunHandler(ops, end, sink, c) ==
    IF ops = << >> THEN [w |-> sink, panic |-> end]
    ELSE LET op == Head(ops)
         IN  IF op = "WriteHeader"
             THEN RunHandler(Tail(ops), end, WriteHeader(sink, StatusOK), c)
             ELSE LET wr == Write(sink, TextChunk(<<"partial">>), c)
                  IN  IF wr.panicked THEN [w |-> wr.w, panic |-> SinkPanic]
                      ELSE RunHandler(Tail(ops), end, wr.w, c)

\* recover() in the deferred function: the value of the panic under way.
Recover(val, nilStaysNil) ==
    IF val.t = "nil" /\ ~nilStaysNil THEN PanicNilError ELSE val

\* The %v rendering of a panic value.
Render(val) == IF val.t = "nil" THEN <<"<nil>">> ELSE val.v

\* fmt.Sprintf("Panic recovered: %v", err)
PanicDetails(val) == Text(<<"Panic recovered: ">> \o Render(val))

\* The record the deferred function builds.
PanicAppError(val, now, stack) ==
    LET r0 == <<NewAppError(ErrCodeInternal, "Internal server error", "", "", "", "",
                            now, stack)>>
        r1 == IsCritical(r0, 1)
        r2 == WithErrorCode(r1.heap, r1.ret, "FS001")
        r3 == IsSystemError(r2.heap, r2.ret)
        r4 == WithUserID(r3.heap, r3.ret, "system")
        r5 == WithDetails(r4.heap, r4.ret, PanicDetails(val))
        r6 == WithModule(r5.heap, r5.ret, "middleware")
    IN  r6.heap[r6.ret]

\* The wrapper's ServeHTTP: next.ServeHTTP(w, r) under the deferred recover.
ErrorRecoveryMiddleware(handler, sink, c, nilStaysNil, now, stack) ==
    LET inner == RunHandler(handler.ops, handler.end, sink, c)
        err == Recover(inner.panic, nilStaysNil)
    IN  IF inner.panic.t = "none" \/ err.t = "nil"
        THEN [w |-> inner.w, dispatched |-> 0, escaped |-> NoPanic]
        ELSE LET out == WriteErrorResponse(inner.w, PanicAppError(err, now, stack), c)
             IN  [ w |-> out.w,
                   dispatched |-> 1,
                   escaped |-> IF out.panicked THEN SinkPanic ELSE NoPanic ]

(***************************************************************************)
(* The inputs of the writers and of the middleware.                        *)
(***************************************************************************)
Conns == { "ok", "broken", "panics" }

Dressed(code, details, plain) ==
    LET r0 == <<NewAppError(code, "Resource not found", "", "", "", "", 1703123456,
                            HandlerStack)>>
        r1 == WithDetails(r0, 1, details)
        r2 == WithModule(r1.heap, r1.ret, "")
        r3 == WithoutTrace(r2.heap, r2.ret)
        r4 == WithRequestID(r1.heap, r1.ret, "req-abc")
    IN  IF plain THEN r3.heap[r3.ret] ELSE r4.heap[r4.ret]

WriterCodes == { ErrCodeNotFound, ErrCodeValidation, ErrCodeInternal, "CUSTOM_ERROR" }

SampleErrors ==
    { Dressed(code, details, plain) :
        code \in WriterCodes, details \in DetailsValues, plain \in BOOLEAN }

Payloads == { Text(<<"John Doe">>), Number("123"), NilValue, Chan }

PanicValues ==
    { Text(<<"Test panic">>), [t |-> "error", v |-> <<"boom">>], Number("42"), NilValue }

HandlerOps ==
    { << >>, <<"WriteHeader">>, <<"WriteHeader", "Write">>, <<"Write">> }

Handlers == [ops : HandlerOps, end : PanicValues \cup {NoPanic}]

RecoveryStack ==
    << Frame("http.go", 70, <<"github", ".", "com", "/", "blackboxai", "/", "blerrors", ".",
                              "ErrorRecoveryMiddleware", ".", "func1", ".", "1">>),
       Frame("panic.go", 770, <<"runtime", ".", "gopanic">>),
       HandlerFrame, ServeFrame, GoexitFrame >>

\* How many operations one sink receives before the next request's sink
\* replaces it.
MaxResponses == 2

\* The first request's sink; the build fixes what recover() does with nil.
HttpStart(conns, builds) ==
    /\ w = FreshSink
    /\ conn \in conns
    /\ panicnil \in builds
    /\ served = 0
    /\ lastOp = "NewRecorder"
    /\ wasFresh = TRUE
    /\ argErr = NilValue
    /\ argData = NilValue
    /\ argHandler = [ops |-> << >>, end |-> NoPanic]
    /\ encodeErr = "none"
    /\ dispatched = 0
    /\ escaped = NoPanic

HttpInit == HttpStart(Conns, BOOLEAN)

Budget == served < MaxResponses /\ served' = served + 1

\* The next request arrives with a sink of its own.
NewRecorder ==
    /\ served > 0
    /\ w' = FreshSink
    /\ conn' \in Conns
    /\ served' = 0
    /\ lastOp' = "NewRecorder"
    /\ wasFresh' = TRUE
    /\ argErr' = NilValue
    /\ argData' = NilValue
    /\ argHandler' = [ops |-> << >>, end |-> NoPanic]
    /\ encodeErr' = "none"
    /\ dispatched' = 0
    /\ escaped' = NoPanic
    /\ UNCHANGED panicnil

CallWriteErrorResponse ==
    /\ Budget
    /\ \E e \in SampleErrors :
         LET out == WriteErrorResponse(w, e, conn)
         IN  /\ w' = out.w
             /\ argErr' = e
             /\ encodeErr' = out.encodeErr
             /\ escaped' = IF out.panicked THEN SinkPanic ELSE NoPanic
    /\ lastOp' = "WriteErrorResponse"
    /\ wasFresh' = (w = FreshSink)
    /\ dispatched' = 0
    /\ UNCHANGED <<conn, panicnil, argData, argHandler>>

CallWriteSuccessResponse ==
    /\ Budget
    /\ \E data \in Payloads :
         LET out == WriteSuccessResponse(w, data, conn)
         IN  /\ w' = out.w
             /\ argData' = data
             /\ encodeErr' = out.encodeErr
             /\ escaped' = IF out.panicked THEN SinkPanic ELSE NoPanic
    /\ lastOp' = "WriteSuccessResponse"
    /\ wasFresh' = (w = FreshSink)
    /\ dispatched' = 0
    /\ UNCHANGED <<conn, panicnil, argErr, argHandler>>

ServeRecovered ==
    /\ Budget
    /\ \E handler \in Handlers :
         LET out == ErrorRecoveryMiddleware(handler, w, conn, panicnil, 1703123456,
                                            RecoveryStack)
         IN  /\ w' = out.w
             /\ argHandler' = handler
             /\ dispatched' = out.dispatched
             /\ escaped' = out.escaped
    /\ lastOp' = "ErrorRecoveryMiddleware"
    /\ wasFresh' = (w = FreshSink)
    /\ encodeErr' = "none"
    /\ UNCHANGED <<conn, panicnil, argErr, argData>>

(***************************************************************************)
(* RequestIDMiddleware. Each request is served by a goroutine of its own;  *)
(* the steps of one request are the statements of the wrapper.             *)
(***************************************************************************)
DigitChars == <<"0", "1", "2", "3", "4", "5", "6", "7", "8", "9">>

RECURSIVE FormatNat(_)
FormatNat(n) ==
    IF n < 10 THEN <<DigitChars[n + 1]>>
    ELSE FormatNat(n \div 10) \o <<DigitChars[(n % 10) + 1]>>

\* fmt.Sprintf("%d", n)
FormatInt(n) == IF n < 0 THEN <<"-">> \o FormatNat(-n) ELSE FormatNat(n)

\* requestID := fmt.Sprintf("%d", time.Now().UnixNano())
NewRequestID(now) == FormatInt(now)

\* A wrapper that attaches the id under a key type of its own, which the
\* string key of GetRequestID does not equal.
EnrichedContextTypedKey(parent, requestID) ==
    WithValue(parent, [t |-> "ctxKey", name |-> "request_id"], Text(requestID))

\* ctx := context.WithValue(r.Context(), "request_id", requestID)
EnrichedContext(parent, requestID) ==
    WithValue(parent, RequestIDKey, Text(requestID))

\* The contexts requests arrive with: none, or one an outer layer has put a
\* request id into.
IncomingContexts ==
    { Background,
      WithValue(Background, RequestIDKey, Text(<<"upstream">>)),
      WithValue(Background, RequestIDKey, Number("123")) }

\* The readings of the clock when the first request arrives.
StartTimes == { 0, 9, 1703123456 }

\* How many requests are in flight, and how often the clock advances.
NReq == 2
MaxTicks == 1

Requests == 1..NReq

IdleRequest ==
    [ pc |-> "idle", inCtx |-> Background, stamp |-> 0, requestID |-> << >>,
      ctx |-> Background, seen |-> << >>, calls |-> 0 ]

RidStart(times) ==
    /\ clock \in times
    /\ ticks = 0
    /\ req = [r \in Requests |-> IdleRequest]

RidInit == RidStart(StartTimes)

Tick ==
    /\ ticks < MaxTicks
    /\ ticks' = ticks + 1
    /\ clock' = clock + 1
    /\ UNCHANGED req

\* The server hands the request to the wrapper's ServeHTTP.
Arrive(r) ==
    /\ req[r].pc = "idle"
    /\ \E c \in IncomingContexts :
         req' = [req EXCEPT ![r].pc = "start", ![r].inCtx = c, ![r].ctx = c]
    /\ UNCHANGED <<clock, ticks>>

Generate(r) ==
    /\ req[r].pc = "start"
    /\ req' = [req EXCEPT ![r].pc = "generated",
                          ![r].stamp = clock,
                          ![r].requestID = NewRequestID(clock)]
    /\ UNCHANGED <<clock, ticks>>

\* r = r.WithContext(ctx)
Attach(r) ==
    /\ req[r].pc = "generated"
    /\ req' = [req EXCEPT ![r].pc = "attached",
                          ![r].ctx = EnrichedContext(req[r].inCtx, req[r].requestID)]
    /\ UNCHANGED <<clock, ticks>>

\* next.ServeHTTP(w, r): the inner handler reads GetRequestID(r.Context()).
Invoke(r) ==
    /\ req[r].pc = "attached"
    /\ req' = [req EXCEPT ![r].pc = "inner",
                          ![r].calls = @ + 1,
                          ![r].seen = GetRequestID(req[r].ctx)]
    /\ UNCHANGED <<clock, ticks>>

Return(r) ==
    /\ req[r].pc = "inner"
    /\ req' = [req EXCEPT ![r].pc = "done"]
    /\ UNCHANGED <<clock, ticks>>

PureInit ==
    /\ statusIn = ""
    /\ statusOut = 0
    /\ ctxIn = Background
    /\ ridOut = << >>
    /\ pureOp = "none"

CallGetHTTPStatusCode ==
    \E code \in ErrorCodes :
        /\ statusIn' = code
        /\ statusOut' = getHTTPStatusCode(code)
        /\ pureOp' = "getHTTPStatusCode"
        /\ ctxIn' = Background
        /\ ridOut' = << >>

CallGetRequestID ==
    \E ctx \in Contexts :
        /\ ctxIn' = ctx
        /\ ridOut' = GetRequestID(ctx)
        /\ pureOp' = "GetRequestID"
        /\ statusIn' = ""
        /\ statusOut' = 0

\* Where nothing of the writers, or of the request-id wrapper, runs.
HttpQuiet == HttpStart({"ok"}, {FALSE})
RidQuiet == RidStart({0})

Init == PureInit /\ RecInit /\ HttpInit /\ RidInit

PureStep(A) == A /\ UNCHANGED <<recVars, httpVars, ridVars>>
RecStep(A) == A /\ UNCHANGED <<pureVars, httpVars, ridVars>>
HttpStep(A) == A /\ UNCHANGED <<pureVars, recVars, ridVars>>
RidStep(A) == A /\ UNCHANGED <<pureVars, recVars, httpVars>>

PureNext ==
    \/ PureStep(CallGetHTTPStatusCode)
    \/ PureStep(CallGetRequestID)

RecordNext ==
    \/ RecStep(CallNewAppError)
    \/ RecStep(CallWithModule)
    \/ RecStep(CallWithDetails)
    \/ RecStep(CallWithRequestID)
    \/ RecStep(CallWithoutTrace)

HTTPNext ==
    \/ HttpStep(NewRecorder)
    \/ HttpStep(CallWriteErrorResponse)
    \/ HttpStep(CallWriteSuccessResponse)
    \/ HttpStep(ServeRecovered)

StackNext ==
    \/ RecStep(CallNewAppErrorUnder)
    \/ RecStep(DropRecord)

RequestIDNext ==
    \/ RidStep(Tick)
    \/ \E r \in Requests :
         \/ RidStep(Arrive(r))
         \/ RidStep(Generate(r))
         \/ RidStep(Attach(r))
         \/ RidStep(Invoke(r))
         \/ RidStep(Return(r))

\* The package as a whole: any of its operations, in any order.
Next == PureNext \/ RecordNext \/ StackNext \/ HTTPNext \/ RequestIDNext

\* One specification per component: its operations from its initial states,
\* the other components at rest.
InitPure == PureInit /\ RecInit /\ HttpQuiet /\ RidQuiet
InitRecord == InitPure
InitHTTP == PureInit /\ RecInit /\ HttpInit /\ RidQuiet
InitRequestID == PureInit /\ RecInit /\ HttpQuiet /\ RidInit
InitStack == InitRecord

SpecPure == InitPure /\ [][PureNext]_vars
SpecRecord == InitRecord /\ [][RecordNext]_vars
SpecHTTP == InitHTTP /\ [][HTTPNext]_vars
SpecRequestID == InitRequestID /\ [][RequestIDNext]_vars
SpecStack == InitStack /\ [][StackNext]_vars

Spec == Init /\ [][Next]_vars

(***************************************************************************)
(* C1: getHTTPStatusCode returns the fixed table value for each of the     *)
(* nine predefined codes and 500 for every other code string.              *)
(***************************************************************************)
StatusTable ==
    [c \in PredefinedCodes |->
        CASE c = "NOT_FOUND" -> 404
          [] c = "VALIDATION_ERROR" -> 400
          [] c = "BAD_REQUEST" -> 400
          [] c = "UNAUTHORIZED" -> 401
          [] c = "FORBIDDEN" -> 403
          [] c = "CONFLICT" -> 409
          [] c = "TOO_MANY_REQUESTS" -> 429
          [] c = "SERVICE_UNAVAILABLE" -> 503
          [] c = "INTERNAL_ERROR" -> 500]

C1_StatusTable ==
    pureOp = "getHTTPStatusCode" =>
        statusOut = IF statusIn \in DOMAIN StatusTable
                    THEN StatusTable[statusIn] ELSE 500

C1_Witness ==
    /\ pureOp = "getHTTPStatusCode"
    /\ statusIn = "CUSTOM_ERROR"
    /\ statusOut = 500

(***************************************************************************)
(* What the claims about contexts read: where a chain holds the request-id *)
(* key, and the innermost such place.                                      *)
(***************************************************************************)
KeyPositions(ctx) == { i \in 1..Len(ctx) : ctx[i].key = RequestIDKey }

InnermostPosition(ctx) ==
    CHOOSE i \in KeyPositions(ctx) : \A j \in KeyPositions(ctx) : i <= j

(***************************************************************************)
(* What the writers' claims read off the sink.                             *)
(***************************************************************************)
HeaderThenStatus ==
    /\ Len(w.calls) >= 2
    /\ w.calls[1] = "Header.Set"
    /\ w.calls[2] = "WriteHeader"
    /\ ClientHeader(w)["Content-Type"] = "application/json"

OnlyOneWrite ==
    /\ w.calls = <<"Header.Set", "WriteHeader", "Write">>
    /\ Len(w.body) = 1
    /\ w.body[1].kind = "json"

Member(doc, key, absent) == IF key \in DOMAIN doc THEN doc[key] ELSE absent

\* The wire object carries the record: the required members as they are,
\* an optional member absent exactly when the field is empty.
CarriesRecord(obj, e) ==
    /\ DOMAIN obj \subseteq
         {"code", "message", "timestamp", "module", "trace", "details", "request_id"}
    /\ obj["code"] = e.Code
    /\ obj["message"] = e.Message
    /\ obj["timestamp"] = e.Timestamp
    /\ Member(obj, "module", "") = e.Module
    /\ Member(obj, "trace", << >>) = e.Trace
    /\ Member(obj, "request_id", "") = e.RequestID
    /\ IF "details" \in DOMAIN obj
       THEN obj["details"].v = e.Details.v /\ e.Details.t \in {"string", "int"}
       ELSE e.Details.t = "nil"

FailureEnvelopeOf(doc, e) ==
    /\ DOMAIN doc = {"success", "error"}
    /\ doc["success"] = FALSE
    /\ CarriesRecord(doc["error"], e)

JsonNull == [j |-> "null", v |-> << >>]

SuccessEnvelopeOf(doc, data) ==
    /\ "success" \in DOMAIN doc
    /\ doc["success"] = TRUE
    /\ "error" \notin DOMAIN doc
    /\ Member(doc, "data", JsonNull).v = data.v
    /\ Member(doc, "data", JsonNull).j =
         (CASE data.t = "string" -> "string" [] data.t = "int" -> "number" [] OTHER -> "null")

(***************************************************************************)
(* C2, as claimed: for every error record, WriteErrorResponse on a fresh   *)
(* sink sets Content-Type to application/json, then the status to          *)
(* getHTTPStatusCode(record.Code), then writes the failure envelope        *)
(* carrying the record.                                                    *)
(***************************************************************************)
C2_EveryRecordEnveloped ==
    (lastOp = "WriteErrorResponse" /\ wasFresh) =>
        /\ HeaderThenStatus
        /\ ClientStatus(w) = getHTTPStatusCode(argErr.Code)
        /\ OnlyOneWrite
        /\ FailureEnvelopeOf(w.body[1].val, argErr)

(***************************************************************************)
(* C2, amended: on a fresh sink WriteErrorResponse sets Content-Type to    *)
(* application/json and then the status to getHTTPStatusCode(record.Code)  *)
(* before any body byte, for every record; it then writes the failure      *)
(* envelope carrying the record whenever Encode returns no error.          *)
(***************************************************************************)
C2_EnvelopeWhenEncoded ==
    (lastOp = "WriteErrorResponse" /\ wasFresh) =>
        /\ HeaderThenStatus
        /\ ClientStatus(w) = getHTTPStatusCode(argErr.Code)
        /\ (encodeErr = "none" /\ escaped = NoPanic) =>
              /\ OnlyOneWrite
              /\ FailureEnvelopeOf(w.body[1].val, argErr)

C2_Witness ==
    /\ lastOp = "WriteErrorResponse"
    /\ wasFresh
    /\ argErr.Code = "NOT_FOUND"
    /\ argErr.Details.t = "string"
    /\ encodeErr = "none"
    /\ escaped = NoPanic
    /\ ClientStatus(w) = 404
    /\ w.body[1].val["error"]["code"] = "NOT_FOUND"

(***************************************************************************)
(* C3, as claimed: when the envelope cannot be serialized, the client      *)
(* receives the fixed plain-text response with status 500, whatever the    *)
(* record's code.                                                          *)
(***************************************************************************)
C3_FallbackIsPlain500 ==
    (lastOp = "WriteErrorResponse" /\ wasFresh /\ encodeErr = "marshal") =>
        /\ ClientStatus(w) = 500
        /\ ClientHeader(w)["Content-Type"] = "text/plain; charset=utf-8"
        /\ w.body = <<TextChunk(<<"Internal server error", "\n">>)>>

(***************************************************************************)
(* C4, as claimed: whenever the inner handler panics, the middleware       *)
(* dispatches WriteErrorResponse exactly once and no panic leaves the      *)
(* wrapper's ServeHTTP, whatever the panic value and also when the         *)
(* recovery path itself fails while writing.                               *)
(***************************************************************************)
C4_PanicContained ==
    (lastOp = "ErrorRecoveryMiddleware" /\ argHandler.end # NoPanic) =>
        /\ dispatched = 1
        /\ escaped = NoPanic

(***************************************************************************)
(* C5, as claimed: for an inner handler that panics with v, whatever it    *)
(* did to the response before, the response has status 500 and is the      *)
(* failure envelope with code INTERNAL_ERROR, message "Internal server     *)
(* error", module "middleware" and details a string containing v's         *)
(* rendering.                                                              *)
(***************************************************************************)
Contains(pieces, part) ==
    \E i \in 1..Len(pieces) :
        i + Len(part) - 1 <= Len(pieces) /\ SubSeq(pieces, i, i + Len(part) - 1) = part

IsPanicEnvelope(chunk, val) ==
    /\ chunk.kind = "json"
    /\ DOMAIN chunk.val = {"success", "error"}
    /\ chunk.val["success"] = FALSE
    /\ chunk.val["error"]["code"] = "INTERNAL_ERROR"
    /\ chunk.val["error"]["message"] = "Internal server error"
    /\ Member(chunk.val["error"], "module", "") = "middleware"
    /\ "details" \in DOMAIN chunk.val["error"]
    /\ chunk.val["error"]["details"].j = "string"
    /\ Contains(chunk.val["error"]["details"].v, Render(Recover(val, FALSE)))

C5_PanicResponse ==
    (lastOp = "ErrorRecoveryMiddleware" /\ argHandler.end # NoPanic) =>
        /\ ClientStatus(w) = 500
        /\ Len(w.body) = 1
        /\ IsPanicEnvelope(w.body[1], argHandler.end)

(***************************************************************************)
(* C6, as claimed: for every payload, WriteSuccessResponse on a fresh sink *)
(* sets Content-Type to application/json and status 200 before the body,   *)
(* and the body is the success envelope carrying the payload; a success    *)
(* envelope never has an error member, a failure envelope never a data     *)
(* member.                                                                 *)
(***************************************************************************)
EnvelopesExclusive ==
    \A i \in 1..Len(w.body) :
        w.body[i].kind = "json" =>
            IF w.body[i].val["success"]
            THEN "error" \notin DOMAIN w.body[i].val
            ELSE "data" \notin DOMAIN w.body[i].val /\ "error" \in DOMAIN w.body[i].val

C6_EveryPayloadEnveloped ==
    /\ EnvelopesExclusive
    /\ (lastOp = "WriteSuccessResponse" /\ wasFresh) =>
          /\ HeaderThenStatus
          /\ ClientStatus(w) = 200
          /\ OnlyOneWrite
          /\ SuccessEnvelopeOf(w.body[1].val, argData)

(***************************************************************************)
(* C6, amended: on a fresh sink WriteSuccessResponse sets Content-Type to  *)
(* application/json and status 200 before any body byte, for every         *)
(* payload; the body is the success envelope carrying the payload (the     *)
(* data member left out for a nil payload) whenever Encode returns no      *)
(* error; a success envelope never has an error member, a failure envelope *)
(* never a data member.                                                    *)
(***************************************************************************)
C6_EnvelopeWhenEncoded ==
    /\ EnvelopesExclusive
    /\ (lastOp = "WriteSuccessResponse" /\ wasFresh) =>
          /\ HeaderThenStatus
          /\ ClientStatus(w) = 200
          /\ (encodeErr = "none" /\ escaped = NoPanic) =>
                /\ OnlyOneWrite
                /\ SuccessEnvelopeOf(w.body[1].val, argData)

C6_Witness ==
    /\ lastOp = "WriteSuccessResponse"
    /\ wasFresh
    /\ argData = Text(<<"John Doe">>)
    /\ encodeErr = "none"
    /\ ClientStatus(w) = 200
    /\ ClientHeader(w)["Content-Type"] = "application/json"
    /\ w.body[1].val["success"] = TRUE
    /\ w.body[1].val["data"].v = <<"John Doe">>

(***************************************************************************)
(* C7: RequestIDMiddleware generates the id and attaches it to the         *)
(* request's context before it invokes the inner handler, invokes it       *)
(* exactly once, and the inner handler's GetRequestID returns that id, a   *)
(* non-empty decimal string; with requests in flight together, each        *)
(* handler sees the id of its own request.                                 *)
(***************************************************************************)
IsDecimal(str) ==
    /\ str # << >>
    /\ \A i \in 1..Len(str) : \E d \in 1..10 : str[i] = DigitChars[d]

C7_RequestIDSeen ==
    \A r \in Requests :
        /\ req[r].pc \in {"idle", "start", "generated", "attached"} => req[r].calls = 0
        /\ req[r].pc \in {"inner", "done"} =>
              /\ req[r].calls = 1
              /\ KeyPositions(req[r].ctx) # {}
              /\ req[r].ctx[InnermostPosition(req[r].ctx)].val = Text(req[r].requestID)
              /\ req[r].seen = req[r].requestID
              /\ req[r].seen = FormatNat(req[r].stamp)
              /\ IsDecimal(req[r].seen)

C7_Witness ==
    /\ req[1].pc = "inner"
    /\ req[2].pc = "done"
    /\ req[1].inCtx # Background
    /\ req[1].seen # req[2].seen
    /\ req[1].seen = <<"1", "0">>
    /\ req[2].seen = <<"9">>

(***************************************************************************)
(* C8: GetRequestID returns the string the context holds under the         *)
(* request-id key, and the empty string when the key is absent or holds a  *)
(* value that is not a string.                                             *)
(***************************************************************************)
C8_GetRequestIDTotal ==
    pureOp = "GetRequestID" =>
        IF KeyPositions(ctxIn) = {} THEN ridOut = << >>
        ELSE LET held == ctxIn[InnermostPosition(ctxIn)].val
             IN  IF held.t = "string" THEN ridOut = held.v ELSE ridOut = << >>

C8_Witness ==
    /\ pureOp = "GetRequestID"
    /\ KeyPositions(ctxIn) # {}
    /\ ctxIn[InnermostPosition(ctxIn)].val = Number("123")
    /\ ridOut = << >>

(***************************************************************************)
(* C9: once WithoutTrace has been called on a record its trace is empty,   *)
(* whatever builders are called on it afterwards.                          *)
(***************************************************************************)
Called(e, op) == \E i \in 1..Len(log[e]) : log[e][i].op = op

C9_TraceStaysCleared ==
    \A e \in DOMAIN log : Called(e, "WithoutTrace") => heap[e].Trace = << >>

C9_Witness ==
    \E e \in DOMAIN log :
        /\ born[e].Trace # << >>
        /\ Len(log[e]) = 3
        /\ log[e][1].op = "WithoutTrace"
        /\ log[e][2].op = "WithModule"
        /\ log[e][3].op = "WithDetails"
        /\ heap[e].Trace = << >>

(***************************************************************************)
(* C10: a builder overwrites its own field and nothing else and returns    *)
(* the record it was called on: after any calls the code, message and      *)
(* timestamp are those of construction, and an optional field holds the    *)
(* argument of the last call for it.                                       *)
(***************************************************************************)
LastCall(e, op) ==
    CHOOSE i \in 1..Len(log[e]) :
        /\ log[e][i].op = op
        /\ \A j \in (i + 1)..Len(log[e]) : log[e][j].op # op

FieldAfter(e, op, initial) ==
    IF Called(e, op) THEN log[e][LastCall(e, op)].arg ELSE initial

Expected(e) ==
    [ born[e] EXCEPT
        !.Module = FieldAfter(e, "WithModule", born[e].Module),
        !.Details = FieldAfter(e, "WithDetails", born[e].Details),
        !.RequestID = FieldAfter(e, "WithRequestID", born[e].RequestID),
        !.Trace = IF Called(e, "WithoutTrace") THEN << >> ELSE born[e].Trace ]

C10_BuilderFrame ==
    /\ Len(heap) = Len(log)
    /\ \A e \in DOMAIN log : heap[e] = Expected(e)
    /\ \A e \in DOMAIN log :
         /\ heap[e].Code = born[e].Code
         /\ heap[e].Message = born[e].Message
         /\ heap[e].Timestamp = born[e].Timestamp
    /\ recv # 0 => ret = recv

C10_Witness ==
    \E e \in DOMAIN log :
        /\ Len(log[e]) = 3
        /\ log[e][1].op = "WithModule" /\ log[e][1].arg = ""
        /\ log[e][2].op = "WithDetails"
        /\ log[e][3].op = "WithModule" /\ log[e][3].arg = "auth-service"
        /\ heap[e].Module = "auth-service"
        /\ heap[e].Details = log[e][2].arg
        /\ recv = e
        /\ ret = e

(***************************************************************************)
(* What the claims about stack capture read: the stack a record was born   *)
(* under, and the frames of it that the deny-list does not name.           *)
(***************************************************************************)
StartsWith(function, prefix) ==
    /\ Len(function) >= Len(prefix)
    /\ SubSeq(function, 1, Len(prefix)) = prefix

DenyListed(frame) ==
    \E i \in 1..Len(systemPrefixes) : StartsWith(frame.Function, systemPrefixes[i])

Informative(stack) == SelectSeq(stack, LAMBDA frame : ~DenyListed(frame))

(***************************************************************************)
(* C11: when stack introspection yields no frames (runtime.Callers returns *)
(* 0), NewAppError still returns a record, and that record has an empty    *)
(* trace and the module "unknown".                                         *)
(***************************************************************************)
C11_NoFramesDegrades ==
    \A e \in DOMAIN born :
        under[e] = << >> =>
            /\ ret = e
            /\ born[e].Trace = << >>
            /\ born[e].Module = "unknown"

(***************************************************************************)
(* C12: the trace NewAppError captures is, in stack order from the caller  *)
(* of NewAppError on, the descriptors of the frames whose function does    *)
(* not start with a deny-listed prefix, collection stopping only at 10     *)
(* such frames or at the end of the stack: never more than 10 entries,     *)
(* never a deny-listed frame, exactly 10 whenever the stack holds at least *)
(* 10 frames that are not deny-listed. Read for stacks that hold a frame.  *)
(***************************************************************************)
FirstTen(seq) == SubSeq(seq, 1, IF Len(seq) < 10 THEN Len(seq) ELSE 10)

InformativeTrace(stack) ==
    LET kept == FirstTen(Informative(stack))
    IN  [i \in 1..Len(kept) |-> FrameString(kept[i])]

C12_TraceIsInformativeFrames ==
    \A e \in DOMAIN born :
        under[e] # << >> =>
            /\ born[e].Trace = InformativeTrace(under[e])
            /\ Len(born[e].Trace) <= 10
            /\ \A i \in 1..Len(under[e]) :
                 DenyListed(under[e][i]) =>
                     \A j \in 1..Len(born[e].Trace) :
                         born[e].Trace[j] # FrameString(under[e][i])
            /\ Len(Informative(under[e])) >= 10 => Len(born[e].Trace) = 10

(***************************************************************************)
(* C13: the module NewAppError infers is taken from the first frame of    *)
(* the caller's stack that is not deny-listed: its function name split on  *)
(* "/" and ".", the last segment of the package path that is neither      *)
(* "internal" nor "pkg" (a function in                                     *)
(* github.com/org/project/internal/handler yields "handler"); "unknown"    *)
(* only if no segment qualifies, so with a named caller frame the module   *)
(* is never "unknown" or empty. Read for stacks that hold a frame.         *)
(***************************************************************************)
Positions(function, piece) == { i \in 1..Len(function) : function[i] = piece }

Greatest(set) == IF set = {} THEN 0 ELSE CHOOSE i \in set : \A j \in set : j <= i
Least(set, none) == IF set = {} THEN none ELSE CHOOSE i \in set : \A j \in set : i <= j

\* The package path of a function name: what precedes the first "." after
\* the last "/".
PackagePath(function) ==
    LET slash == Greatest(Positions(function, "/"))
        dot == Least({ i \in Positions(function, ".") : i > slash },
                     Len(function) + 1)
    IN  SubSeq(function, 1, dot - 1)

Segments(path) == SelectSeq(path, LAMBDA piece : piece \notin {"/", "."})

Qualifying(path) ==
    SelectSeq(Segments(path), LAMBDA piece : piece \notin {"internal", "pkg", ""})

ModuleOf(stack) ==
    LET frames == Informative(stack)
        named == IF frames = << >> THEN << >>
                 ELSE Qualifying(PackagePath(Head(frames).Function))
    IN  IF named = << >> THEN "unknown" ELSE named[Len(named)]

C13_ModuleIsPackageSegment ==
    \A e \in DOMAIN born :
        under[e] # << >> =>
            /\ born[e].Module = ModuleOf(under[e])
            /\ ModuleOf(under[e]) # "unknown" => born[e].Module \notin {"unknown", ""}

====
